---- MODULE Spec2Model ----
(***************************************************************************)
(* BIP32-style hierarchical deterministic key derivation (src/src/lib.rs). *)
(*                                                                         *)
(* Representation.                                                         *)
(*   - A u64 is a tuple of four 16-bit limbs, most significant first, so   *)
(*     that 2^31, 2^32 and 2^64 - 1 keep their exact values.               *)
(*   - Byte strings (secret keys, chain codes, HMAC messages, signatures)  *)
(*     are sequences of bytes of their real length.                        *)
(*   - secp256k1 is replaced by the cyclic group Z_CurveOrder: a secret    *)
(*     key is a 32-byte big-endian scalar in 1..CurveOrder-1, a public key *)
(*     is the group element scalar*G (never the identity).                 *)
(*   - HMAC-SHA512 is replaced by a keyed polynomial hash with a 64-byte   *)
(*     output whose halves range over 0..ScalarSpace-1 and 0..ChainSpace-1.*)
(***************************************************************************)
EXTENDS Integers, Sequences, FiniteSets

VARIABLES
    salt,       \* which function of the hash family stands for HMAC-SHA512
    parent,     \* the ExtendedPrivKey the caller currently holds
    call,       \* the last call: operation and arguments
    result,     \* what the last call returned (Ok / Err / Panic)
    data,       \* the HMAC message the last call built (<<>> if none)
    signature,  \* the HMAC output of the last call (<<>> if none)
    child_pub   \* the last ChildPubKey made by ChildPubKey::from_private_key

vars == <<salt, parent, call, result, data, signature, child_pub>>

-----------------------------------------------------------------------------
(* Bounds of the model *)

CurveOrder == 7
ChainSpace == 2
MaxSalt == 2
MaxSeedLength == 2
HashModulus == 1021

\* left halves of a signature range over 0..ScalarSpace-1: 0 and the values
\* from CurveOrder up are not valid scalars
ScalarSpace == CurveOrder + 2


-----------------------------------------------------------------------------
(* Big-endian numbers *)

Zeros(n) == [i \in 1..n |-> 0]

\* the len-byte big-endian encoding of n; a byte more than three places above
\* the last is zero for every n below 2^31
NatToBE(n, len) ==
    [i \in 1..len |-> IF len - i > 3 THEN 0 ELSE (n \div 256^(len - i)) % 256]

RECURSIVE BEToNat(_)
BEToNat(bytes) ==
    IF bytes = <<>> THEN 0
    ELSE 256 * BEToNat(SubSeq(bytes, 1, Len(bytes) - 1)) + bytes[Len(bytes)]

\* a < b for two big-endian digit strings of the same length
BELt(a, b) ==
    \E i \in 1..Len(a) : a[i] < b[i] /\ \A j \in 1..(i - 1) : a[j] = b[j]

-----------------------------------------------------------------------------
(* u64 *)

Limb == 2^16

u64_lt(a, b) == BELt(a, b)
u64_le(a, b) == ~BELt(b, a)

\* a + b, wrapping at 2^64
u64_add(a, b) ==
    LET s4 == a[4] + b[4]
        s3 == a[3] + b[3] + (s4 \div Limb)
        s2 == a[2] + b[2] + (s3 \div Limb)
        s1 == a[1] + b[1] + (s2 \div Limb)
    IN  <<s1 % Limb, s2 % Limb, s3 % Limb, s4 % Limb>>

\* 2 ** 31
HARDENDED_KEY_START_INDEX == <<0, 0, 32768, 0>>
\* 2 ** 32 - 1
HARDENDED_KEY_END_INDEX == <<0, 0, 65535, 65535>>

U64_ZERO == <<0, 0, 0, 0>>
U64_MAX == <<65535, 65535, 65535, 65535>>

\* the indices the callers pass: both ends of every range the code tells apart
IndexInputs ==
    { U64_ZERO,
      <<0, 0, 0, 1>>,
      <<0, 0, 32767, 65535>>,       \* 2^31 - 1
      HARDENDED_KEY_START_INDEX,    \* 2^31
      <<0, 0, 32768, 1>>,           \* 2^31 + 1
      HARDENDED_KEY_END_INDEX,      \* 2^32 - 1
      <<0, 1, 0, 0>>,               \* 2^32
      <<0, 1, 32768, 0>>,           \* 2^32 + 2^31
      U64_MAX }                     \* 2^64 - 1

-----------------------------------------------------------------------------
(* Result values *)

Ok(v) == [tag |-> "Ok", value |-> v]
Err(e) == [tag |-> "Err", error |-> e]
Panic(m) == [tag |-> "Panic", message |-> m]

NoCall == [op |-> "none"]
NoResult == [tag |-> "None"]

\* what one call did: its return value, the HMAC message it built and the
\* HMAC output it got (<<>> when the call ended before)
Trace(r, d, s) == [ret |-> r, data |-> d, signature |-> s]

-----------------------------------------------------------------------------
(* numext_fixed_uint::U256: sixteen 16-bit limbs, most significant first *)

U256_from(index) == Zeros(12) \o index

\* each limb gives two bytes, the high one first
LimbsToBytes(limbs) ==
    [i \in 1..(2 * Len(limbs)) |->
        IF i % 2 = 1 THEN limbs[(i + 1) \div 2] \div 256 ELSE limbs[i \div 2] % 256]

\* U256::into_big_endian(&mut buf): fails unless the buffer holds 32 bytes
into_big_endian(value, buf_len) ==
    IF buf_len # 32 THEN Err("InvalidLength") ELSE Ok(LimbsToBytes(value))

-----------------------------------------------------------------------------
(* secp256k1 over the group Z_CurveOrder *)

CurveOrderBytes == NatToBE(CurveOrder, 32)

\* SecretKey::from_slice: 32 bytes, not zero, below the curve order
SecretKey_from_slice(bytes) ==
    IF /\ Len(bytes) = 32
       /\ bytes # Zeros(32)
       /\ BELt(bytes, CurveOrderBytes)
    THEN Ok(bytes)
    ELSE Err("InvalidSecretKey")

\* SecretKey::add_assign: (self + other) mod order; fails when other is not
\* below the order or the sum is zero
SecretKey_add_assign(self, other) ==
    IF Len(other) # 32 \/ ~BELt(other, CurveOrderBytes) THEN Err("InvalidTweak")
    ELSE LET sum == (BEToNat(self) + BEToNat(other)) % CurveOrder
         IN  IF sum = 0 THEN Err("InvalidTweak") ELSE Ok(NatToBE(sum, 32))

\* PublicKey::from_secret_key: the point scalar * G, held as its multiple of G
PublicKey_from_secret_key(secret_key) == BEToNat(secret_key)

\* PublicKey::serialize: 33 bytes, the parity prefix and the x coordinate
\* (P and -P share x and differ in the prefix)
PublicKey_serialize(public_key) ==
    IF 2 * public_key <= CurveOrder
    THEN <<2>> \o NatToBE(public_key, 32)
    ELSE <<3>> \o NatToBE(CurveOrder - public_key, 32)

\* PublicKey::add_exp_assign: self + other * G; fails when other is not below
\* the order or the sum is the point at infinity
PublicKey_add_exp_assign(self, other) ==
    IF Len(other) # 32 \/ ~BELt(other, CurveOrderBytes) THEN Err("InvalidTweak")
    ELSE LET sum == (self + BEToNat(other)) % CurveOrder
         IN  IF sum = 0 THEN Err("InvalidTweak") ELSE Ok(sum)

-----------------------------------------------------------------------------
(* ring::hmac with SHA-512: a keyed hash with a 64-byte output *)

RECURSIVE Pow31(_)
\* 31^k mod HashModulus
Pow31(k) ==
    IF k = 0 THEN 1
    ELSE LET h == Pow31(k \div 2)
         IN  (h * h * (IF k % 2 = 1 THEN 31 ELSE 1)) % HashModulus

RECURSIVE Poly(_)
\* the polynomial sum of (byte + 1) * 31^(place) mod HashModulus, by halves
Poly(bytes) ==
    IF bytes = <<>> THEN 0
    ELSE IF Len(bytes) = 1 THEN (bytes[1] + 1) % HashModulus
    ELSE LET mid == Len(bytes) \div 2
             hi == Poly(SubSeq(bytes, 1, mid))
             lo == Poly(SubSeq(bytes, mid + 1, Len(bytes)))
         IN  (hi * Pow31(Len(bytes) - mid) + lo) % HashModulus

\* one multiply-and-add round per byte, starting from acc
Absorb(acc, bytes) == (acc * Pow31(Len(bytes)) + Poly(bytes)) % HashModulus

hmac_sha512(key, msg) ==
    LET keyed == (Absorb(salt + 1, key) * 31 + 257) % HashModulus
        h == Absorb(keyed, msg)
    IN  NatToBE(h % ScalarSpace, 32) \o NatToBE((h \div ScalarSpace) % ChainSpace, 32)

\* slice::split_at
split_at(bytes, mid) == <<SubSeq(bytes, 1, mid), SubSeq(bytes, mid + 1, Len(bytes))>>

-----------------------------------------------------------------------------
(* Keys *)

ExtendedPrivKey(private_key, chain_code) ==
    [private_key |-> private_key, chain_code |-> chain_code]

ExtendedPubKey(public_key, chain_code) ==
    [public_key |-> public_key, chain_code |-> chain_code]

ChildKey(index, key_mode, extended_key) ==
    [index |-> index, key_mode |-> key_mode, extended_key |-> extended_key]

\* impl From<u64> for KeyMode
KeyMode_from(index) ==
    IF u64_lt(index, HARDENDED_KEY_START_INDEX) THEN Ok("Normal")
    ELSE IF u64_le(index, HARDENDED_KEY_END_INDEX) THEN Ok("Hardened")
    ELSE Panic("Out of range index")

-----------------------------------------------------------------------------
(* generate_master_key *)

\* Vec::with_capacity: room for `capacity` elements, and none in it
Vec_with_capacity(capacity) == <<>>

\* Rng::fill(slice): every element of the slice is overwritten with the next
\* byte of the generator's stream
rng_fill(slice, stream) == [i \in 1..Len(slice) |-> stream[i]]

generate_master_key(seed_length, stream) ==
    LET seed == rng_fill(Vec_with_capacity(seed_length), stream)
        sig_bytes == hmac_sha512(<<66, 105, 116, 99, 111, 105, 110, 32, 115, 101, 101, 100>>, seed)
        halves == split_at(sig_bytes, Len(sig_bytes) \div 2)
        private_key == SecretKey_from_slice(halves[1])
    IN  IF private_key.tag = "Ok"
        THEN Trace(Ok(ExtendedPrivKey(private_key.value, halves[2])), seed, sig_bytes)
        ELSE Trace(Err("InvalidIndex"), seed, sig_bytes)

-----------------------------------------------------------------------------
(* ExtendedPrivKey *)

\* the shift forgotten: the raw index is used as it is
to_hardened_key_index_unshifted(index) == index

to_hardened_key_index(index) ==
    IF u64_lt(index, HARDENDED_KEY_START_INDEX)
    THEN u64_add(HARDENDED_KEY_START_INDEX, index)
    ELSE index

\* the index written as BIP32's ser32 does: four bytes
ser_index_4_bytes(index) == Ok(LimbsToBytes(SubSeq(index, 3, 4)))

\* let mut ser_index = [0u8; 32]; U256::from(index).into_big_endian(&mut ser_index)
ser_index(index) == into_big_endian(U256_from(index), Len(Zeros(32)))

hardened_data(self, ser) == <<0>> \o self.private_key \o ser

public_key_data(public_key, ser) == PublicKey_serialize(public_key) \o ser

normal_data(self, ser) ==
    public_key_data(PublicKey_from_secret_key(self.private_key), ser)

\* if index > HARDENDED_KEY_END_INDEX
hardened_index_out_of_range(index) == u64_lt(HARDENDED_KEY_END_INDEX, index)

\* the left half taken as the child's key without SecretKey::from_slice
hardened_child_unchecked(self, index, msg) ==
    LET sig_bytes == hmac_sha512(self.chain_code, msg)
        halves == split_at(sig_bytes, Len(sig_bytes) \div 2)
    IN  Trace(Ok(ChildKey(index, "Hardened", ExtendedPrivKey(halves[1], halves[2]))),
              msg, sig_bytes)

\* assert_eq!(data.len(), 65), the hash, and the child made of its halves
hardened_child(self, index, msg) ==
    IF Len(msg) # 65 THEN Trace(Panic("assertion failed: data.len() == 65"), msg, <<>>)
    ELSE
    LET sig_bytes == hmac_sha512(self.chain_code, msg)
        halves == split_at(sig_bytes, Len(sig_bytes) \div 2)
        private_key == SecretKey_from_slice(halves[1])
    IN  IF private_key.tag = "Ok"
        THEN Trace(Ok(ChildKey(index, "Hardened",
                               ExtendedPrivKey(private_key.value, halves[2]))),
                   msg, sig_bytes)
        ELSE Trace(Err("InvalidIndex"), msg, sig_bytes)

derive_hardended_key(self, raw_index) ==
    LET index == to_hardened_key_index(raw_index)
        ser == ser_index(index)
    IN  IF hardened_index_out_of_range(index)
        THEN Trace(Err("IndexOutOfRange"), <<>>, <<>>)
        ELSE IF ser.tag # "Ok" THEN Trace(Panic("big_endian encode"), <<>>, <<>>)
        ELSE hardened_child(self, index, hardened_data(self, ser.value))

\* > for >=: 2^31 passes as a normal index
normal_index_out_of_range_off_by_one(index) == u64_lt(HARDENDED_KEY_START_INDEX, index)

\* if index >= HARDENDED_KEY_START_INDEX
normal_index_out_of_range(index) == ~u64_lt(index, HARDENDED_KEY_START_INDEX)

\* the addition forgotten: the left half is the child's key, as in the
\* hardened path
normal_tweak_none(private_key, self) == Ok(private_key)

\* private_key.add_assign(&self.private_key[..])
normal_tweak(private_key, self) == SecretKey_add_assign(private_key, self.private_key)

normal_child(self, index, msg) ==
    IF Len(msg) # 65 THEN Trace(Panic("assertion failed: data.len() == 65"), msg, <<>>)
    ELSE
    LET sig_bytes == hmac_sha512(self.chain_code, msg)
        halves == split_at(sig_bytes, Len(sig_bytes) \div 2)
        private_key == SecretKey_from_slice(halves[1])
        tweaked == normal_tweak(private_key.value, self)
    IN  IF private_key.tag = "Ok"
        THEN IF tweaked.tag # "Ok" THEN Trace(Panic("add point"), msg, sig_bytes)
             ELSE Trace(Ok(ChildKey(index, "Normal",
                                    ExtendedPrivKey(tweaked.value, halves[2]))),
                        msg, sig_bytes)
        ELSE Trace(Err("InvalidIndex"), msg, sig_bytes)

derive_normal_key(self, index) ==
    LET ser == ser_index(index)
    IN  IF normal_index_out_of_range(index)
        THEN Trace(Err("IndexOutOfRange"), <<>>, <<>>)
        ELSE IF ser.tag # "Ok" THEN Trace(Panic("big_endian encode"), <<>>, <<>>)
        ELSE normal_child(self, index, normal_data(self, ser.value))

derive_private_key(self, key_mode, index) ==
    IF key_mode = "Hardened"
    THEN derive_hardended_key(self, index)
    ELSE derive_normal_key(self, index)

-----------------------------------------------------------------------------
(* ExtendedPubKey *)

\* only indices past the hardened range are refused
public_index_out_of_range_end(index) == u64_lt(HARDENDED_KEY_END_INDEX, index)

\* if index >= HARDENDED_KEY_START_INDEX
public_index_out_of_range(index) == ~u64_lt(index, HARDENDED_KEY_START_INDEX)

\* the parent's point forgotten: the child is the left half's own point
public_tweak_alone(public_key, private_key) ==
    Ok(PublicKey_from_secret_key(private_key))

\* public_key.add_exp_assign(&secp, &private_key[..])
public_tweak(public_key, private_key) ==
    PublicKey_add_exp_assign(public_key, private_key)

public_child(self, index, msg) ==
    IF Len(msg) # 65 THEN Trace(Panic("assertion failed: data.len() == 65"), msg, <<>>)
    ELSE
    LET sig_bytes == hmac_sha512(self.chain_code, msg)
        halves == split_at(sig_bytes, Len(sig_bytes) \div 2)
        private_key == SecretKey_from_slice(halves[1])
        tweaked == public_tweak(self.public_key, private_key.value)
    IN  IF private_key.tag = "Ok" /\ tweaked.tag = "Ok"
        THEN Trace(Ok(ChildKey(index, "Normal",
                               ExtendedPubKey(tweaked.value, halves[2]))),
                   msg, sig_bytes)
        ELSE Trace(Err("InvalidIndex"), msg, sig_bytes)

\* (the println! of the left half between the hash and the checks changes
\* nothing the caller sees and is left out)
derive_public_key(self, index) ==
    LET ser == ser_index(index)
    IN  IF public_index_out_of_range(index)
        THEN Trace(Err("IndexOutOfRange"), <<>>, <<>>)
        ELSE IF ser.tag # "Ok" THEN Trace(Panic("big_endian encode"), <<>>, <<>>)
        ELSE public_child(self, index, public_key_data(self.public_key, ser.value))

ExtendedPubKey_from_private_key(extended_key) ==
    Ok(ExtendedPubKey(PublicKey_from_secret_key(extended_key.private_key),
                      extended_key.chain_code))

-----------------------------------------------------------------------------
(* ChildPubKey *)

\* the key mode written as derive_public_key writes it, not copied
ChildPubKey_from_private_key_normal(child_key) ==
    LET extended_key == ExtendedPubKey_from_private_key(child_key.extended_key)
    IN  Ok(ChildKey(child_key.index, "Normal", extended_key.value))

ChildPubKey_from_private_key(child_key) ==
    LET extended_key == ExtendedPubKey_from_private_key(child_key.extended_key)
    IN  IF extended_key.tag # "Ok" THEN extended_key
        ELSE Ok(ChildKey(child_key.index, child_key.key_mode, extended_key.value))

-----------------------------------------------------------------------------
(* The callers: the state machine *)

Scalars == { NatToBE(k, 32) : k \in 1..(CurveOrder - 1) }
ChainCodes == { NatToBE(c, 32) : c \in 0..(ChainSpace - 1) }
ExtendedPrivKeys == { ExtendedPrivKey(k, c) : k \in Scalars, c \in ChainCodes }

SeedLengths == 0..MaxSeedLength
\* what the generator would hand out: MaxSeedLength bytes, all 0x00 or all 0xff
RngStreams == { [i \in 1..MaxSeedLength |-> b] : b \in {0, 255} }
KeyModes == {"Normal", "Hardened"}

Init ==
    /\ salt \in 0..(MaxSalt - 1)
    /\ parent \in ExtendedPrivKeys
    /\ call = NoCall
    /\ result = NoResult
    /\ data = <<>>
    /\ signature = <<>>
    /\ child_pub = NoResult

Returned(t) ==
    /\ result' = t.ret
    /\ data' = t.data
    /\ signature' = t.signature
    /\ child_pub' = NoResult

GenerateMasterKey(seed_length, stream) ==
    /\ call' = [op |-> "generate_master_key", seed_length |-> seed_length,
                stream |-> stream]
    /\ Returned(generate_master_key(seed_length, stream))
    /\ UNCHANGED <<salt, parent>>

\* one turn of fetch_random_key's loop: the key is returned (and held by the
\* caller from then on) when generate_master_key gives one, else the loop
\* goes round again
FetchRandomKey(seed_size, stream) ==
    LET t == generate_master_key(seed_size, stream)
    IN  /\ call' = [op |-> "fetch_random_key", seed_length |-> seed_size,
                    stream |-> stream]
        /\ Returned(t)
        /\ parent' = IF t.ret.tag = "Ok" THEN t.ret.value ELSE parent
        /\ UNCHANGED salt

\* parent.derive_private_key(key_mode, index)
DerivePrivateKey(key_mode, index) ==
    /\ call' = [op |-> "derive_private_key", self |-> parent,
                key_mode |-> key_mode, index |-> index]
    /\ Returned(derive_private_key(parent, key_mode, index))
    /\ UNCHANGED <<salt, parent>>

\* the caller goes on from the child it was given: its extended key is the
\* parent of the next derivation
Descend ==
    /\ call.op = "derive_private_key"
    /\ result.tag = "Ok"
    /\ parent' = result.value.extended_key
    /\ UNCHANGED <<salt, call, result, data, signature, child_pub>>

\* ExtendedPubKey::from_private_key(&parent).expect(..).derive_public_key(index)
DerivePublicKey(index) ==
    LET self == ExtendedPubKey_from_private_key(parent).value
    IN  /\ call' = [op |-> "derive_public_key", self |-> self, index |-> index]
        /\ Returned(derive_public_key(self, index))
        /\ UNCHANGED <<salt, parent>>

\* ChildPubKey::from_private_key(&child_private_key)
ChildPubFromPrivate ==
    /\ call.op = "derive_private_key"
    /\ result.tag = "Ok"
    /\ child_pub = NoResult
    /\ child_pub' = ChildPubKey_from_private_key(result.value)
    /\ UNCHANGED <<salt, parent, call, result, data, signature>>

Next ==
    \/ \E n \in SeedLengths, s \in RngStreams : GenerateMasterKey(n, s)
    \/ \E n \in SeedLengths, s \in RngStreams : FetchRandomKey(n, s)
    \/ \E m \in KeyModes, i \in IndexInputs : DerivePrivateKey(m, i)
    \/ Descend
    \/ \E i \in IndexInputs : DerivePublicKey(i)
    \/ ChildPubFromPrivate

Spec == Init /\ [][Next]_vars

-----------------------------------------------------------------------------
(* What the claims speak of *)

\* a scalar of the curve: 32 bytes, in 1..CurveOrder-1
ValidScalar(bytes) ==
    Len(bytes) = 32 /\ bytes # Zeros(32) /\ BELt(bytes, CurveOrderBytes)

\* the 32-byte big-endian form of a u64
BigEndian32(index) == Zeros(24) \o LimbsToBytes(index)

Left == SubSeq(signature, 1, 32)
Right == SubSeq(signature, 33, 64)

PrivateCall == call.op = "derive_private_key"
PublicCall == call.op = "derive_public_key"
MasterCall == call.op \in {"generate_master_key", "fetch_random_key"}
NormalCall == PrivateCall /\ call.key_mode = "Normal"
HardenedCall == PrivateCall /\ call.key_mode = "Hardened"

\* C1. Cross-derivation equivalence: when derive_private_key(P, Normal, i)
\* succeeds, the ChildPubKey made of that child equals, field by field, the
\* child that derive_public_key(i) gives from P's extended public key.
CrossDerivationEquivalence ==
    (NormalCall /\ result.tag = "Ok") =>
        LET from_private == ChildPubKey_from_private_key(result.value)
            parent_public == ExtendedPubKey_from_private_key(call.self)
            from_public == derive_public_key(parent_public.value, call.index).ret
        IN  /\ u64_lt(call.index, HARDENDED_KEY_START_INDEX)
            /\ from_public.tag = "Ok"
            /\ from_public.value.index = from_private.value.index
            /\ from_public.value.key_mode = from_private.value.key_mode
            /\ from_public.value.extended_key.public_key
                   = from_private.value.extended_key.public_key
            /\ from_public.value.extended_key.chain_code
                   = from_private.value.extended_key.chain_code
            /\ from_public = from_private
            /\ (child_pub # NoResult => child_pub = from_public)

\* a normal child whose scalar wrapped round the curve order, turned into its
\* public form
CrossDerivationWitness ==
    /\ NormalCall /\ result.tag = "Ok" /\ child_pub.tag = "Ok"
    /\ call.index = <<0, 0, 32767, 65535>>
    /\ BEToNat(Left) + BEToNat(call.self.private_key) > CurveOrder

\* C2. Hardened exclusivity: derive_public_key with any index >= 2^31, also
\* one above 2^32 - 1, returns IndexOutOfRange and no child; no child it
\* returns has key mode Hardened.
HardenedExclusivity ==
    PublicCall =>
        /\ u64_le(HARDENDED_KEY_START_INDEX, call.index)
               => result = Err("IndexOutOfRange")
        /\ result.tag = "Ok" => /\ result.value.key_mode # "Hardened"
                                /\ u64_lt(result.value.index, HARDENDED_KEY_START_INDEX)

HardenedExclusivityWitness ==
    /\ PublicCall
    /\ call.index = <<0, 1, 32768, 0>>
    /\ result = Err("IndexOutOfRange")

\* C3. Range rejection: derive_private_key returns IndexOutOfRange in Normal
\* mode exactly for the indices >= 2^31, and in Hardened mode exactly for the
\* raw indices >= 2^32.
RangeRejection ==
    PrivateCall =>
        ( result = Err("IndexOutOfRange")
          <=> IF call.key_mode = "Normal"
              THEN u64_le(HARDENDED_KEY_START_INDEX, call.index)
              ELSE u64_lt(HARDENDED_KEY_END_INDEX, call.index) )

RangeRejectionWitness ==
    /\ NormalCall
    /\ call.index = HARDENDED_KEY_START_INDEX
    /\ result = Err("IndexOutOfRange")

\* C4. Index normalization: derive_private_key(P, Hardened, i) with i < 2^31
\* returns what derive_private_key(P, Hardened, 2^31 + i) returns, the child
\* recording index 2^31 + i; an index in [2^31, 2^32 - 1] is recorded as it is.
IndexNormalization ==
    HardenedCall =>
        /\ u64_lt(call.index, HARDENDED_KEY_START_INDEX) =>
            LET shifted == u64_add(HARDENDED_KEY_START_INDEX, call.index)
                direct == derive_private_key(call.self, "Hardened", shifted)
            IN  /\ result = direct.ret
                /\ data = direct.data
                /\ signature = direct.signature
                /\ result.tag = "Ok" => /\ result.value.index = shifted
                                        /\ result.value.key_mode = "Hardened"
                /\ SubSeq(data, 34, 65) = BigEndian32(shifted)
        /\ ( /\ u64_le(HARDENDED_KEY_START_INDEX, call.index)
             /\ u64_le(call.index, HARDENDED_KEY_END_INDEX)
             /\ result.tag = "Ok" ) => result.value.index = call.index

IndexNormalizationWitness ==
    /\ HardenedCall
    /\ call.index = <<0, 0, 0, 1>>
    /\ result.tag = "Ok"
    /\ result.value.index = <<0, 0, 32768, 1>>

\* C5. The master key generator hashes the seed it is given: the message of
\* generate_master_key(seed_length) is a sequence of exactly seed_length
\* random bytes.
MasterKeyHashesSeed ==
    MasterCall => Len(data) = call.seed_length

\* C6. All failures are returned as error values: no call ends in anything
\* but Ok(child) or Err(error kind); a normal derivation whose sum of left
\* half and parent scalar is zero modulo the curve order returns an Err.
AllFailuresReturned ==
    /\ result.tag \in {"None", "Ok", "Err"}
    /\ ( /\ NormalCall
         /\ signature # <<>>
         /\ ValidScalar(Left)
         /\ (BEToNat(Left) + BEToNat(call.self.private_key)) % CurveOrder = 0 )
       => result.tag = "Err"

\* the index a call hashes: the normalized one in Hardened mode
HashedIndex ==
    IF HardenedCall /\ u64_lt(call.index, HARDENDED_KEY_START_INDEX)
    THEN u64_add(HARDENDED_KEY_START_INDEX, call.index)
    ELSE call.index

\* the HMAC key of a call: "Bitcoin seed" for the master key, the parent's
\* chain code for a child
HashKey ==
    IF MasterCall
    THEN <<66, 105, 116, 99, 111, 105, 110, 32, 115, 101, 101, 100>>
    ELSE call.self.chain_code

\* C7. Scalar validity: every extended private key produced by
\* generate_master_key or derive_private_key, after any chain of calls, has a
\* scalar in 1..CurveOrder-1; a call whose HMAC left half is zero or not below
\* the curve order returns InvalidIndex, having hashed once, for the index and
\* input it was called with.
ScalarValidity ==
    /\ ValidScalar(parent.private_key)
    /\ (MasterCall /\ result.tag = "Ok") => ValidScalar(result.value.private_key)
    /\ (PrivateCall /\ result.tag = "Ok")
           => ValidScalar(result.value.extended_key.private_key)
    /\ (signature # <<>> /\ ~ValidScalar(Left)) => result = Err("InvalidIndex")
    /\ signature # <<>> => signature = hmac_sha512(HashKey, data)
    /\ ((PrivateCall \/ PublicCall) /\ signature # <<>>)
           => SubSeq(data, 34, 65) = BigEndian32(HashedIndex)

\* a hardened derivation whose left half is not below the curve order
ScalarValidityWitness ==
    /\ HardenedCall
    /\ signature # <<>>
    /\ ~BELt(Left, CurveOrderBytes)
    /\ result = Err("InvalidIndex")

\* C8. Scalar tweak correctness: a successful Normal derivation gives the
\* scalar (left half + parent scalar) mod curve order, which is not zero, and
\* the right half as chain code; a successful Hardened derivation gives the
\* left half itself as scalar.
ScalarTweakCorrectness ==
    (PrivateCall /\ result.tag = "Ok") =>
        LET child == result.value.extended_key
        IN  /\ signature = hmac_sha512(call.self.chain_code, data)
            /\ child.chain_code = Right
            /\ call.key_mode = "Normal" =>
                /\ BEToNat(child.private_key)
                       = (BEToNat(Left) + BEToNat(call.self.private_key)) % CurveOrder
                /\ BEToNat(child.private_key) # 0
                /\ child.private_key = NatToBE(BEToNat(child.private_key), 32)
            /\ call.key_mode = "Hardened" => child.private_key = Left

ScalarTweakWitness ==
    /\ NormalCall /\ result.tag = "Ok"
    /\ BEToNat(Left) + BEToNat(call.self.private_key) > CurveOrder
    /\ BEToNat(result.value.extended_key.private_key) # BEToNat(Left)

\* a child whose index is in range and whose key mode is its index's class
Classified(child) ==
    /\ u64_le(U64_ZERO, child.index)
    /\ u64_le(child.index, HARDENDED_KEY_END_INDEX)
    /\ KeyMode_from(child.index) = Ok(child.key_mode)
    /\ child.key_mode = "Hardened" <=> u64_le(HARDENDED_KEY_START_INDEX, child.index)

\* C9. Child classification: every child returned by derive_private_key,
\* derive_public_key or ChildPubKey::from_private_key records an index in
\* [0, 2^32 - 1] and the key mode that index classifies to; the ChildPubKey
\* of a ChildPrivKey keeps its index and key mode.
ChildClassification ==
    /\ ((PrivateCall \/ PublicCall) /\ result.tag = "Ok") => Classified(result.value)
    /\ child_pub # NoResult =>
        /\ child_pub.tag = "Ok"
        /\ Classified(child_pub.value)
        /\ child_pub.value.index = result.value.index
        /\ child_pub.value.key_mode = result.value.key_mode

ChildClassificationWitness ==
    /\ child_pub.tag = "Ok"
    /\ child_pub.value.key_mode = "Hardened"
    /\ child_pub.value.index = HARDENDED_KEY_END_INDEX

\* C10. Message and chain-code widths: a derivation that passes the index
\* range check hashes exactly 65 bytes (0x00, the 32-byte scalar and the
\* 32-byte big-endian index when Hardened; the 33-byte compressed public key
\* and the 32-byte big-endian index otherwise), so neither the length assert
\* nor the index encoding fails; every extended key produced has a chain code
\* of 32 bytes.
MessageAndChainCodeWidths ==
    /\ ((PrivateCall \/ PublicCall) /\ result # Err("IndexOutOfRange")) =>
        /\ Len(data) = 65
        /\ SubSeq(data, 34, 65) = BigEndian32(HashedIndex)
        /\ HardenedCall =>
            /\ data[1] = 0
            /\ SubSeq(data, 2, 33) = call.self.private_key
        /\ NormalCall =>
            /\ data[1] \in {2, 3}
            /\ SubSeq(data, 1, 33)
                   = PublicKey_serialize(PublicKey_from_secret_key(call.self.private_key))
        /\ PublicCall =>
            /\ data[1] \in {2, 3}
            /\ SubSeq(data, 1, 33) = PublicKey_serialize(call.self.public_key)
        /\ result.tag = "Panic" => result.message = "add point"
    /\ (MasterCall /\ result.tag = "Ok") => Len(result.value.chain_code) = 32
    /\ ((PrivateCall \/ PublicCall) /\ result.tag = "Ok")
           => Len(result.value.extended_key.chain_code) = 32
    /\ child_pub # NoResult => Len(child_pub.value.extended_key.chain_code) = 32
    /\ Len(parent.chain_code) = 32

MessageWidthWitness ==
    /\ HardenedCall
    /\ call.index = HARDENDED_KEY_END_INDEX
    /\ result.tag = "Ok"
    /\ Len(data) = 65
    /\ data[65] = 255
    /\ data[61] = 0

====
